---- MODULE Spec2Model ----
(***************************************************************************)
(* Model of bootstrap.py: a manifest of repositories is normalised into    *)
(* RepoSpec records, and each one is synchronised (git clone or fetch,     *)
(* checkout, submodules) and then installed (none, pip, uv, poetry).       *)
(*                                                                         *)
(* Strings are sequences of atoms, so that concatenation, prefix, suffix   *)
(* and substring are computed.  An optional value is a sequence of length  *)
(* 0 (None) or 1.  An exception is a machine whose ok field is FALSE: every *)
(* later call of the handler is skipped.                                   *)
(***************************************************************************)
EXTENDS Integers, Sequences, FiniteSets, TLC

VARIABLES manifest, gh_token, cache0, pc, idx, specs, objs, repo_dir, installed,
          cmds, disk, syspath, environ, modules, summary, error

vars == <<manifest, gh_token, cache0, pc, idx, specs, objs, repo_dir, installed,
          cmds, disk, syspath, environ, modules, summary, error>>

\* ------------------------------------------------------------------ bounds
MaxEntries == 2
MaxRun == 4

\* ----------------------------------------------------------------- strings
None == <<>>
Some(x) == <<x>>

S(a) == <<a>>

RECURSIVE Join(_, _)
Join(list, sep) ==
    IF list = <<>> THEN <<>>
    ELSE IF Len(list) = 1 THEN list[1]
    ELSE list[1] \o sep \o Join(Tail(list), sep)

StartsWith(s, p) == Len(p) <= Len(s) /\ SubSeq(s, 1, Len(p)) = p

EndsWith(s, p) == Len(p) <= Len(s) /\ SubSeq(s, Len(s) - Len(p) + 1, Len(s)) = p

Contains(s, t) ==
    \E k \in 0..(Len(s) - Len(t)) : SubSeq(s, k + 1, k + Len(t)) = t

\* ------------------------------------------------------------------- paths
\* A path is a sequence of components; PathStr is str(path).
RECURSIVE PathStr(_)
PathStr(p) == IF p = <<>> THEN <<>> ELSE <<"/", p[1]>> \o PathStr(Tail(p))

RECURSIVE Resolve(_, _)
Resolve(base, rel) ==
    IF rel = <<>> THEN base
    ELSE IF rel[1] = "." THEN Resolve(base, Tail(rel))
    ELSE IF rel[1] = ".."
         THEN Resolve(IF base = <<>> THEN <<>> ELSE SubSeq(base, 1, Len(base) - 1),
                      Tail(rel))
    ELSE Resolve(Append(base, rel[1]), Tail(rel))

REPO_ROOT == <<"content", "repos">>

Executable == S("python")

\* ---------------------------------------------------------------- RepoSpec
Fields == {"name", "url", "ref", "editable", "submodules", "extras",
           "install", "path", "env", "post_install"}

NoEnv == [k \in {} |-> ""]

\* Variant: another mainline branch name is the default ref.
Defaults_master ==
    [ref |-> "master", editable |-> TRUE, submodules |-> FALSE, extras |-> <<>>,
     install |-> "pip", path |-> <<".">>, env |-> NoEnv, post_install |-> None]

Defaults ==
    [ref |-> "main", editable |-> TRUE, submodules |-> FALSE, extras |-> <<>>,
     install |-> "pip", path |-> <<".">>, env |-> NoEnv, post_install |-> None]

\* RepoSpec(**e) raises TypeError when a required field is missing or a
\* keyword is not a field of the dataclass; no value is validated.
RepoSpecOk(e) ==
    /\ "name" \in DOMAIN e
    /\ "url" \in DOMAIN e
    /\ DOMAIN e \subseteq Fields

RepoSpec(e) ==
    [name |-> e.name,
     url |-> e.url,
     ref |-> IF "ref" \in DOMAIN e THEN e.ref ELSE Defaults.ref,
     editable |-> IF "editable" \in DOMAIN e THEN e.editable ELSE Defaults.editable,
     submodules |-> IF "submodules" \in DOMAIN e THEN e.submodules
                    ELSE Defaults.submodules,
     extras |-> IF "extras" \in DOMAIN e THEN e.extras ELSE Defaults.extras,
     install |-> IF "install" \in DOMAIN e THEN e.install ELSE Defaults.install,
     path |-> IF "path" \in DOMAIN e THEN e.path ELSE Defaults.path,
     env |-> IF "env" \in DOMAIN e THEN e.env ELSE Defaults.env,
     post_install |-> IF "post_install" \in DOMAIN e THEN e.post_install
                      ELSE Defaults.post_install]

\* The identity of the list held by extras and of the dict held by env in
\* the spec built from entry k: the object the manifest gives, or the one
\* default_factory creates for this instance.
\* Variant: one default object is shared by every instance.
FieldObject_shared(k, e, f) ==
    IF f \in DOMAIN e THEN <<"manifest", k, f>> ELSE <<"default", 0, f>>

FieldObject(k, e, f) ==
    IF f \in DOMAIN e THEN <<"manifest", k, f>> ELSE <<"default_factory", k, f>>

FieldObjects(k, e) ==
    [extras |-> FieldObject(k, e, "extras"), env |-> FieldObject(k, e, "env")]

\* ---------------------------------------------------------- command runner
\* A machine is the part of the process state a handler reads and writes,
\* with the exit statuses the next commands will return (rcs).
Machine(rcs, entry, by) ==
    [ok |-> TRUE, err |-> "", rcs |-> rcs, entry |-> entry, by |-> by,
     cmds |-> cmds, disk |-> disk, syspath |-> syspath, environ |-> environ,
     modules |-> modules]

IsGit(cmd) == cmd[1] = S("git")

IsClone(cmd) == IsGit(cmd) /\ \E k \in 1..Len(cmd) : cmd[k] = S("clone")

IsFetch(cmd) == IsGit(cmd) /\ Len(cmd) >= 2 /\ cmd[2] = S("fetch")

IsCheckout(cmd) == IsGit(cmd) /\ Len(cmd) >= 2 /\ cmd[2] = S("checkout")

IsSubmodule(cmd) == IsGit(cmd) /\ Len(cmd) >= 2 /\ cmd[2] = S("submodule")

\* What a command that exits 0 does to the cache directory (a map from the
\* directories that exist to their working tree).
Exec(m, cmd, cwd) ==
    IF IsClone(cmd)
    THEN [m EXCEPT !.disk = [d \in DOMAIN m.disk \cup {cmd[Len(cmd)]} |->
             IF d = cmd[Len(cmd)]
             THEN [url |-> cmd[Len(cmd) - 1], head |-> "HEAD", subs |-> FALSE]
             ELSE m.disk[d]]]
    ELSE IF IsCheckout(cmd)
    THEN [m EXCEPT !.disk[cwd[1]].head = cmd[3][1]]
    ELSE IF IsSubmodule(cmd)
    THEN [m EXCEPT !.disk[cwd[1]].subs = TRUE]
    ELSE m

\* Variant: the exit status is not checked (check=False).
run_unchecked(m, cmd, cwd, quiet) ==
    IF ~m.ok THEN m
    ELSE LET rc == Head(m.rcs)
             logged == [m EXCEPT
                 !.cmds = Append(@, [argv |-> cmd, cwd |-> cwd, env |-> m.environ,
                                     quiet |-> quiet, rc |-> rc,
                                     entry |-> m.entry, by |-> m.by]),
                 !.rcs = Tail(@)]
         IN IF rc # 0 THEN logged ELSE Exec(logged, cmd, cwd)

run(m, cmd, cwd, quiet) ==
    IF ~m.ok THEN m
    ELSE LET rc == Head(m.rcs)
             logged == [m EXCEPT
                 !.cmds = Append(@, [argv |-> cmd, cwd |-> cwd, env |-> m.environ,
                                     quiet |-> quiet, rc |-> rc,
                                     entry |-> m.entry, by |-> m.by]),
                 !.rcs = Tail(@)]
         IN IF rc # 0
            THEN [logged EXCEPT !.ok = FALSE, !.err = "command failed"]
            ELSE Exec(logged, cmd, cwd)

\* The module is importable once pip has installed its package.
ensure(m, module, pip_name) ==
    IF ~m.ok \/ module \in m.modules THEN m
    ELSE LET m1 == run(m, <<Executable, S("-m"), S("pip"), S("install"), S("-q"),
                            S(pip_name)>>, None, FALSE)
         IN IF m1.ok THEN [m1 EXCEPT !.modules = @ \cup {module}] ELSE m1

\* ------------------------------------------------------------ synchronizer
GatedPrefix == <<"https://", "github.com", "/">>

AuthHeader(token) == <<"http.extraheader=AUTHORIZATION: bearer ", token>>

Dest(spec) == Append(REPO_ROOT, spec.name)

\* Variant: the destination is never found.
Exists_never(m, dest) == FALSE

Exists(m, dest) == PathStr(dest) \in DOMAIN m.disk

\* Variant: the header is added for every host.
clone_cmd_any_host(spec, token) ==
    IF token # None
    THEN <<S("git"), S("-c"), AuthHeader(token[1]), S("clone"), spec.url,
           PathStr(Dest(spec))>>
    ELSE <<S("git"), S("clone"), spec.url, PathStr(Dest(spec))>>

\* Variant: the token is put into the url (https://tok@host/...).
clone_cmd_token_in_url(spec, token) ==
    IF token # None /\ StartsWith(spec.url, GatedPrefix)
    THEN <<S("git"), S("-c"), AuthHeader(token[1]), S("clone"),
           <<spec.url[1], token[1], "@">> \o Tail(spec.url), PathStr(Dest(spec))>>
    ELSE <<S("git"), S("clone"), spec.url, PathStr(Dest(spec))>>

clone_cmd(spec, token) ==
    IF token # None /\ StartsWith(spec.url, GatedPrefix)
    THEN <<S("git"), S("-c"), AuthHeader(token[1]), S("clone"), spec.url,
           PathStr(Dest(spec))>>
    ELSE <<S("git"), S("clone"), spec.url, PathStr(Dest(spec))>>

\* Variant: the submodule update does not look at spec.submodules.
git_clone_or_fetch_always_submodules(m, spec, token) ==
    LET dest == Some(PathStr(Dest(spec)))
        m1 == IF Exists(m, Dest(spec))
              THEN run(m, <<S("git"), S("fetch"), S("--all"), S("--tags")>>, dest, FALSE)
              ELSE run(m, clone_cmd(spec, token), None, FALSE)
        m2 == run(m1, <<S("git"), S("checkout"), S(spec.ref)>>, dest, FALSE)
    IN run(m2, <<S("git"), S("submodule"), S("update"), S("--init"),
                 S("--recursive")>>, dest, FALSE)

\* Variant: the destination is cloned again although it exists.
git_clone_or_fetch_reclone(m, spec, token) ==
    LET dest == Some(PathStr(Dest(spec)))
        m1 == run(m, clone_cmd(spec, token), None, FALSE)
        m2 == run(m1, <<S("git"), S("checkout"), S(spec.ref)>>, dest, FALSE)
    IN IF spec.submodules
       THEN run(m2, <<S("git"), S("submodule"), S("update"), S("--init"),
                      S("--recursive")>>, dest, FALSE)
       ELSE m2

git_clone_or_fetch(m, spec, token) ==
    LET dest == Some(PathStr(Dest(spec)))
        m1 == IF Exists(m, Dest(spec))
              THEN run(m, <<S("git"), S("fetch"), S("--all"), S("--tags")>>, dest, FALSE)
              ELSE run(m, clone_cmd(spec, token), None, FALSE)
        m2 == run(m1, <<S("git"), S("checkout"), S(spec.ref)>>, dest, FALSE)
    IN IF spec.submodules
       THEN run(m2, <<S("git"), S("submodule"), S("update"), S("--init"),
                      S("--recursive")>>, dest, FALSE)
       ELSE m2

\* ------------------------------------------------------ install strategies
Bracket(extras) ==
    IF extras # <<>>
    THEN S("[") \o Join([k \in 1..Len(extras) |-> S(extras[k])], S(",")) \o S("]")
    ELSE <<>>

PipUpgrade == <<Executable, S("-m"), S("pip"), S("install"), S("-q"), S("-U"), S("pip")>>

\* Variant: the extras are dropped from the target.
pip_editable_install_no_extras(m, project_dir, extras) ==
    LET egg == PathStr(project_dir)
        m1 == run(m, PipUpgrade, None, TRUE)
    IN run(m1, <<Executable, S("-m"), S("pip"), S("install"), S("-e"), egg>>, None, FALSE)

pip_editable_install(m, project_dir, extras) ==
    LET egg == PathStr(project_dir) \o Bracket(extras)
        m1 == run(m, PipUpgrade, None, TRUE)
    IN run(m1, <<Executable, S("-m"), S("pip"), S("install"), S("-e"), egg>>, None, FALSE)

pip_noneditable_install(m, project_dir, extras) ==
    LET target == S(".") \o Bracket(extras)
        m1 == run(m, PipUpgrade, None, TRUE)
    IN run(m1, <<Executable, S("-m"), S("pip"), S("install"), target>>,
           Some(PathStr(project_dir)), FALSE)

\* Variant: the path is appended instead of inserted at the front.
add_to_syspath_append(m, project_dir) ==
    IF ~m.ok THEN m
    ELSE LET p == PathStr(project_dir)
         IN IF \E k \in 1..Len(m.syspath) : m.syspath[k] = p
            THEN m
            ELSE [m EXCEPT !.syspath = Append(@, p)]

\* Variant: the path is inserted without the membership test.
add_to_syspath_always(m, project_dir) ==
    IF ~m.ok THEN m
    ELSE [m EXCEPT !.syspath = <<PathStr(project_dir)>> \o @]

add_to_syspath(m, project_dir) ==
    IF ~m.ok THEN m
    ELSE LET p == PathStr(project_dir)
         IN IF \E k \in 1..Len(m.syspath) : m.syspath[k] = p
            THEN m
            ELSE [m EXCEPT !.syspath = <<p>> \o @]

uv_install(m, project_dir, editable, extras) ==
    LET m1 == ensure(m, "uv", "uv")
    IN IF editable
       THEN pip_editable_install(m1, project_dir, extras)
       ELSE LET target == IF extras # <<>> THEN S(".") \o Bracket(extras) ELSE S(".")
            IN run(m1, <<Executable, S("-m"), S("uv"), S("pip"), S("install"), target>>,
                   Some(PathStr(project_dir)), FALSE)

poetry_install(m, project_dir, editable, extras) ==
    LET m1 == ensure(m, "poetry", "poetry")
        base == <<Executable, S("-m"), S("poetry"), S("install")>>
        args == IF extras # <<>>
                THEN base \o <<S("--with"),
                               Join([k \in 1..Len(extras) |-> S(extras[k])], S(","))>>
                ELSE base
        m2 == run(m1, args, Some(PathStr(project_dir)), FALSE)
    IN IF editable THEN add_to_syspath(m2, project_dir) ELSE m2

Truthy(opt) == opt # None /\ opt[1] # ""

\* Variant: a variable that is already set keeps its value (setdefault).
Update_keep_old(old, new) ==
    [k \in DOMAIN old \cup DOMAIN new |-> IF k \in DOMAIN old THEN old[k] ELSE new[k]]

Update(old, new) ==
    [k \in DOMAIN old \cup DOMAIN new |-> IF k \in DOMAIN new THEN new[k] ELSE old[k]]

\* Variant: the editable flag of strategy pip is read the wrong way round.
Dispatch_swapped(m, spec, project_dir) ==
    IF spec.install = "none" THEN add_to_syspath(m, project_dir)
    ELSE IF spec.install = "pip"
    THEN IF spec.editable
         THEN pip_noneditable_install(m, project_dir, spec.extras)
         ELSE pip_editable_install(m, project_dir, spec.extras)
    ELSE IF spec.install = "uv"
    THEN uv_install(m, project_dir, spec.editable, spec.extras)
    ELSE IF spec.install = "poetry"
    THEN poetry_install(m, project_dir, spec.editable, spec.extras)
    ELSE [m EXCEPT !.ok = FALSE, !.err = "unknown install mode"]

Dispatch(m, spec, project_dir) ==
    IF spec.install = "none" THEN add_to_syspath(m, project_dir)
    ELSE IF spec.install = "pip"
    THEN IF spec.editable
         THEN pip_editable_install(m, project_dir, spec.extras)
         ELSE pip_noneditable_install(m, project_dir, spec.extras)
    ELSE IF spec.install = "uv"
    THEN uv_install(m, project_dir, spec.editable, spec.extras)
    ELSE IF spec.install = "poetry"
    THEN poetry_install(m, project_dir, spec.editable, spec.extras)
    ELSE [m EXCEPT !.ok = FALSE, !.err = "unknown install mode"]

ProjectDir(spec, dir) == Resolve(dir, spec.path)

\* Variant: the hook runs before the install strategy.
install_repo_hook_first(m, spec, dir) ==
    LET project_dir == ProjectDir(spec, dir)
        m1 == [m EXCEPT !.environ = Update(@, spec.env)]
        m2 == IF Truthy(spec.post_install)
              THEN run(m1, <<S("bash"), S("-lc"), S(spec.post_install[1])>>,
                       Some(PathStr(project_dir)), FALSE)
              ELSE m1
        m3 == Dispatch(m2, spec, project_dir)
    IN add_to_syspath(m3, project_dir)

\* Variant: the project root is not made importable after the strategy.
install_repo_no_final_add(m, spec, dir) ==
    LET project_dir == ProjectDir(spec, dir)
        m1 == [m EXCEPT !.environ = Update(@, spec.env)]
        m2 == Dispatch(m1, spec, project_dir)
    IN IF Truthy(spec.post_install)
       THEN run(m2, <<S("bash"), S("-lc"), S(spec.post_install[1])>>,
                Some(PathStr(project_dir)), FALSE)
       ELSE m2

install_repo(m, spec, dir) ==
    LET project_dir == ProjectDir(spec, dir)
        m1 == [m EXCEPT !.environ = Update(@, spec.env)]
        m2 == Dispatch(m1, spec, project_dir)
        m3 == add_to_syspath(m2, project_dir)
    IN IF Truthy(spec.post_install)
       THEN run(m3, <<S("bash"), S("-lc"), S(spec.post_install[1])>>,
                Some(PathStr(project_dir)), FALSE)
       ELSE m3

Result(spec, dir) == [name |-> spec.name, path |-> PathStr(ProjectDir(spec, dir))]

\* ------------------------------------------------------------------ inputs
ExA == <<"https://", "example", "/", "a.git">>
ExB == <<"https://", "example", "/", "b.git">>
GhA == <<"https://", "github.com", "/", "o/a.git">>
GhB == <<"https://", "github.com", "/", "o/b.git">>

Token == "tok"

EntryPool ==
    { [name |-> "a", url |-> ExA],
      [name |-> "b", url |-> ExB, install |-> "none"],
      [name |-> "a", url |-> GhA, extras |-> <<"dev">>],
      [name |-> "b", url |-> GhB, editable |-> FALSE, extras |-> <<"dev", "test">>,
       submodules |-> TRUE],
      [name |-> "a", url |-> ExA, install |-> "uv"],
      [name |-> "b", url |-> ExB, install |-> "uv", editable |-> FALSE,
       extras |-> <<"dev">>, post_install |-> Some("make")],
      [name |-> "a", url |-> GhA, install |-> "poetry", extras |-> <<"dev">>],
      [name |-> "b", url |-> ExB, install |-> "poetry", editable |-> FALSE],
      [name |-> "a", url |-> ExA, install |-> "conda", env |-> [K |-> "v0"]],
      [name |-> "a"],
      [url |-> ExB],
      [name |-> "b", url |-> ExB, branch |-> "dev"],
      [name |-> "b", url |-> ExB, install |-> "none", path |-> <<"pkg">>,
       env |-> [K |-> "v1"], post_install |-> Some("make")],
      [name |-> "a", url |-> ExB, ref |-> "v1", install |-> "none"],
      [name |-> "c", url |-> GhB, path |-> <<"..", "a">>,
       extras |-> <<"dev", "test">>, env |-> [K |-> "v2"]] }

Manifests == UNION {[1..n -> EntryPool] : n \in 0..MaxEntries}

\* The cache directory as earlier runs may have left it.
InitialCaches ==
    { [d \in {} |-> 0],
      [d \in {PathStr(Append(REPO_ROOT, "a"))} |->
          [url |-> ExA, head |-> "main", subs |-> FALSE]] }

InitialModules == {{}, {"yaml", "uv"}}

StdLib == <<"/", "usr", "/", "lib">>

\* ------------------------------------------------------------------- state
Init ==
    /\ manifest \in Manifests
    /\ gh_token \in {"", Token}
    /\ cache0 \in InitialCaches
    /\ disk = cache0
    /\ modules \in InitialModules
    /\ pc = "boot"
    /\ idx = 0
    /\ specs = <<>>
    /\ objs = <<>>
    /\ repo_dir = None
    /\ installed = <<>>
    /\ cmds = <<>>
    /\ syspath = <<StdLib>>
    /\ environ = NoEnv
    /\ summary = None
    /\ error = ""

\* The exit statuses of a handler's commands.  A handler stops at the first
\* non-zero status, so the statuses after it are never read: every command
\* exits 0, or the f-th one is the first to exit non-zero.
Exits == {[k \in 1..MaxRun |-> IF k = f THEN 1 ELSE 0] : f \in 0..MaxRun}

\* The handler's writes to the process state, whether it returned or raised.
Commit(m) ==
    /\ cmds' = m.cmds
    /\ disk' = m.disk
    /\ syspath' = m.syspath
    /\ environ' = m.environ
    /\ modules' = m.modules
    /\ error' = m.err

\* ----------------------------------------------------------------- actions
EnsureYaml ==
    /\ pc = "boot"
    /\ \E rcs \in Exits :
         LET m == ensure(Machine(rcs, 0, "ensure"), "yaml", "pyyaml")
         IN /\ Commit(m)
            /\ pc' = IF m.ok THEN "load" ELSE "failed"
    /\ UNCHANGED <<manifest, gh_token, cache0, objs, idx, specs, repo_dir, installed, summary>>

\* Variant: the entries are normalised lazily, so the well-formed entries
\* before a malformed one are handed to the loop.
Normalize_lazy ==
    /\ pc = "load"
    /\ LET good == {n \in 0..Len(manifest) : \A k \in 1..n : RepoSpecOk(manifest[k])}
           n == CHOOSE x \in good : \A y \in good : y <= x
       IN /\ specs' = [k \in 1..n |-> RepoSpec(manifest[k])]
          /\ objs' = [k \in 1..n |-> FieldObjects(k, manifest[k])]
          /\ idx' = 1
          /\ pc' = IF n = 0 THEN "failed" ELSE "sync"
          /\ error' = IF n = 0 THEN "TypeError" ELSE error
    /\ UNCHANGED <<manifest, gh_token, cache0, repo_dir, installed, cmds, disk, syspath,
                   environ, modules, summary>>

Normalize ==
    /\ pc = "load"
    /\ IF \A k \in 1..Len(manifest) : RepoSpecOk(manifest[k])
       THEN /\ specs' = [k \in 1..Len(manifest) |-> RepoSpec(manifest[k])]
            /\ objs' = [k \in 1..Len(manifest) |-> FieldObjects(k, manifest[k])]
            /\ idx' = 1
            /\ pc' = IF Len(manifest) = 0 THEN "report" ELSE "sync"
            /\ error' = error
       ELSE /\ pc' = "failed"
            /\ error' = "TypeError"
            /\ UNCHANGED <<specs, objs, idx>>
    /\ UNCHANGED <<manifest, gh_token, cache0, repo_dir, installed, cmds, disk, syspath,
                   environ, modules, summary>>

TokenArg == IF gh_token = "" THEN None ELSE Some(gh_token)

Sync ==
    /\ pc = "sync"
    /\ \E rcs \in Exits :
         LET m == git_clone_or_fetch(Machine(rcs, idx, "git_clone_or_fetch"),
                                     specs[idx], TokenArg)
         IN /\ Commit(m)
            /\ pc' = IF m.ok THEN "install" ELSE "failed"
            /\ repo_dir' = IF m.ok THEN Some(Dest(specs[idx])) ELSE repo_dir
    /\ UNCHANGED <<manifest, gh_token, cache0, objs, idx, specs, installed, summary>>

Install ==
    /\ pc = "install"
    /\ \E rcs \in Exits :
         LET m == install_repo(Machine(rcs, idx, "install_repo"), specs[idx],
                               repo_dir[1])
         IN /\ Commit(m)
            /\ IF m.ok
               THEN /\ installed' = Append(installed, Result(specs[idx], repo_dir[1]))
                    /\ idx' = idx + 1
                    /\ pc' = IF idx = Len(specs) THEN "report" ELSE "sync"
               ELSE /\ pc' = "failed"
                    /\ UNCHANGED <<installed, idx>>
    /\ UNCHANGED <<manifest, gh_token, cache0, objs, specs, repo_dir, summary>>

\* Variant: the summary is printed in a finally clause.
Report_finally ==
    /\ pc \in {"report", "failed"}
    /\ summary = None
    /\ summary' = Some(installed)
    /\ pc' = IF pc = "report" THEN "done" ELSE pc
    /\ UNCHANGED <<manifest, gh_token, cache0, objs, idx, specs, repo_dir, installed, cmds, disk,
                   syspath, environ, modules, error>>

Report ==
    /\ pc = "report"
    /\ summary' = Some(installed)
    /\ pc' = "done"
    /\ UNCHANGED <<manifest, gh_token, cache0, objs, idx, specs, repo_dir, installed, cmds, disk,
                   syspath, environ, modules, error>>

Next == EnsureYaml \/ Normalize \/ Sync \/ Install \/ Report

Spec == Init /\ [][Next]_vars

\* ------------------------------------------------------------- claim helpers
InstallModes == {"none", "pip", "uv", "poetry"}

\* The commands the step being taken appends to the log.
NewCmds == SubSeq(cmds', Len(cmds) + 1, Len(cmds'))

IsPackageManager(cmd) ==
    /\ cmd[1] = Executable
    /\ \E k \in 1..Len(cmd) : cmd[k] \in {S("pip"), S("uv"), S("poetry")}

Occurrences(seq, x) == Cardinality({k \in 1..Len(seq) : seq[k] = x})

\* C1: fail-fast.  A command that exits non-zero is the last command of the
\* run: nothing follows it for its entry or for a later entry, the run has
\* failed, and no result exists for its entry or any later one.
C1_FailFast ==
    \A k \in 1..Len(cmds) :
        cmds[k].rc # 0 =>
            /\ k = Len(cmds)
            /\ \A j \in 1..Len(cmds) : cmds[j].entry <= cmds[k].entry
            /\ pc = "failed"
            /\ error = "command failed"
            /\ Len(installed) < IF cmds[k].entry = 0 THEN 1 ELSE cmds[k].entry
            /\ summary = None

\* A command of the install of entry 1 of a two-entry manifest has failed.
C1_Witness ==
    /\ Len(manifest) = 2
    /\ \A k \in 1..2 : RepoSpecOk(manifest[k])
    /\ \E k \in 1..Len(cmds) :
         cmds[k].rc # 0 /\ cmds[k].entry = 1 /\ cmds[k].by = "install_repo"

\* C2: a synchronization issues one clone and no fetch when the destination
\* does not exist, and no clone and one fetch when it exists.
C2_CloneXorFetch ==
    [][pc = "sync" =>
         LET existed == PathStr(Dest(specs[idx])) \in DOMAIN disk
             clones == {k \in 1..Len(NewCmds) : IsClone(NewCmds[k].argv)}
             fetches == {k \in 1..Len(NewCmds) : IsFetch(NewCmds[k].argv)}
         IN /\ Cardinality(clones) = IF existed THEN 0 ELSE 1
            /\ Cardinality(fetches) = IF existed THEN 1 ELSE 0]_vars

\* Entry 1 was cloned and entry 2, of the same name, was fetched.
C2_Witness ==
    /\ pc = "install"
    /\ idx = 2
    /\ \E k \in 1..Len(cmds) : cmds[k].entry = 1 /\ IsClone(cmds[k].argv)
    /\ \E k \in 1..Len(cmds) : cmds[k].entry = 2 /\ IsFetch(cmds[k].argv)

\* C3: a manifest with an install value outside the enumeration is rejected
\* before any command is issued for any entry.
C3_RejectedAtNormalization ==
    (\E k \in 1..Len(manifest) :
        "install" \in DOMAIN manifest[k] /\ manifest[k].install \notin InstallModes)
    => /\ \A j \in 1..Len(cmds) : cmds[j].entry = 0
       /\ pc \in {"boot", "load", "failed"}

\* C4: a manifest with an entry that lacks name or url fails before any
\* command is issued for any of its entries.
C4_MissingKeyRejectedFirst ==
    (\E k \in 1..Len(manifest) :
        "name" \notin DOMAIN manifest[k] \/ "url" \notin DOMAIN manifest[k])
    => /\ \A j \in 1..Len(cmds) : cmds[j].entry = 0 /\ cmds[j].by = "ensure"
       /\ pc \in {"boot", "load", "failed"}
       /\ specs = <<>>
       /\ disk = cache0

\* Normalization has failed on a manifest whose first entry is well formed
\* and whose second entry lacks a required key.
C4_Witness ==
    /\ pc = "failed"
    /\ error = "TypeError"
    /\ Len(manifest) = 2
    /\ RepoSpecOk(manifest[1])
    /\ "url" \notin DOMAIN manifest[2]

\* C5: with a token and a url on the gated host, the clone command carries
\* the token in a -c http.extraheader argument, its url argument is spec.url
\* and the token is no part of that argument.
C5_TokenInHeaderOnly ==
    \A k \in 1..Len(cmds) :
        (/\ IsClone(cmds[k].argv)
         /\ gh_token # ""
         /\ StartsWith(specs[cmds[k].entry].url, <<"https://", "github.com", "/">>))
        => LET argv == cmds[k].argv
           IN /\ \E j \in 1..(Len(argv) - 1) :
                    /\ argv[j] = S("-c")
                    /\ argv[j + 1] =
                         <<"http.extraheader=AUTHORIZATION: bearer ", gh_token>>
              /\ argv[Len(argv) - 1] = specs[cmds[k].entry].url
              /\ ~Contains(argv[Len(argv) - 1], <<gh_token>>)

\* A clone of a url on the gated host was issued with a token supplied.
C5_Witness ==
    /\ gh_token = Token
    /\ \E k \in 1..Len(cmds) :
         /\ IsClone(cmds[k].argv)
         /\ cmds[k].rc = 0
         /\ specs[cmds[k].entry].url = GhA

\* C6: strategy none issues no package-manager command and puts the project
\* root into the search path; a dispatch that finds the root there leaves
\* the search path as it is, so the root occurs in it exactly once.
C6_NoneOnlyPath ==
    /\ [](\A k \in 1..Len(cmds) :
            (cmds[k].by = "install_repo" /\ specs[cmds[k].entry].install = "none")
            => ~IsPackageManager(cmds[k].argv))
    /\ [](\A j \in 1..Len(installed) :
            specs[j].install = "none" => Occurrences(syspath, installed[j].path) = 1)
    /\ [][(pc = "install" /\ specs[idx].install = "none") =>
            LET root == PathStr(Resolve(repo_dir[1], specs[idx].path))
            IN IF Occurrences(syspath, root) > 0
               THEN syspath' = syspath
               ELSE syspath' = <<root>> \o syspath]_vars

\* The same spec with strategy none was dispatched twice.
C6_Witness ==
    /\ Len(installed) = 2
    /\ manifest[1] = manifest[2]
    /\ specs[1].install = "none"
    /\ Occurrences(syspath, installed[1].path) = 1

\* C7: a synchronization of the spec that was synchronized just before it
\* leaves the working tree as it was and issues no clone: a fetch, then the
\* checkout of the same ref.
C7_SyncIdempotent ==
    [][(pc = "sync" /\ idx > 1 /\ specs[idx] = specs[idx - 1]) =>
         /\ disk' = disk
         /\ \A k \in 1..Len(NewCmds) : ~IsClone(NewCmds[k].argv)
         /\ IsFetch(NewCmds[1].argv)
         /\ pc' = "install" =>
              /\ NewCmds[2].argv = <<S("git"), S("checkout"), S(specs[idx].ref)>>
              /\ disk'[PathStr(Dest(specs[idx]))].head = specs[idx].ref]_vars

\* The second of two equal specs has been synchronized.
C7_Witness ==
    /\ pc = "install"
    /\ idx = 2
    /\ specs[1] = specs[2]
    /\ specs[1].ref = "v1"

\* C8: the commands are issued entry by entry, the synchronization of an
\* entry before its install; a run in which every command succeeds ends
\* with one {name, path} record per entry in manifest order; the two-entry
\* scenario against an empty cache issues exactly the expected commands.
C8_Scenario ==
    <<[name |-> "a", url |-> <<"https://", "example", "/", "a.git">>],
      [name |-> "b", url |-> <<"https://", "example", "/", "b.git">>,
       install |-> "none"]>>

C8_EntryCmds ==
    LET ks == {k \in 1..Len(cmds) : cmds[k].entry > 0}
        first == Len(cmds) - Cardinality(ks)
    IN [k \in 1..Cardinality(ks) |-> cmds[first + k].argv]

C8_OrderedRun ==
    /\ \A k, l \in 1..Len(cmds) :
         k < l =>
           /\ cmds[k].entry <= cmds[l].entry
           /\ (cmds[k].entry = cmds[l].entry /\ cmds[k].by = "install_repo")
              => cmds[l].by = "install_repo"
    /\ pc = "done" =>
         /\ Len(installed) = Len(manifest)
         /\ summary = <<installed>>
         /\ \A j \in 1..Len(manifest) :
              /\ installed[j].name = manifest[j].name
              /\ \E k \in 1..Len(cmds) :
                   cmds[k].entry = j /\ cmds[k].by = "git_clone_or_fetch"
    /\ (pc = "done" /\ manifest = C8_Scenario /\ DOMAIN cache0 = {}) =>
         /\ C8_EntryCmds =
              << <<S("git"), S("clone"), <<"https://", "example", "/", "a.git">>,
                   <<"/", "content", "/", "repos", "/", "a">> >>,
                 <<S("git"), S("checkout"), S("main")>>,
                 <<S("python"), S("-m"), S("pip"), S("install"), S("-q"), S("-U"),
                   S("pip")>>,
                 <<S("python"), S("-m"), S("pip"), S("install"), S("-e"),
                   <<"/", "content", "/", "repos", "/", "a">> >>,
                 <<S("git"), S("clone"), <<"https://", "example", "/", "b.git">>,
                   <<"/", "content", "/", "repos", "/", "b">> >>,
                 <<S("git"), S("checkout"), S("main")>> >>
         /\ installed =
              <<[name |-> "a", path |-> <<"/", "content", "/", "repos", "/", "a">>],
                [name |-> "b", path |-> <<"/", "content", "/", "repos", "/", "b">>]>>

\* The two-entry scenario has run to its end against an empty cache.
C8_Witness ==
    /\ pc = "done"
    /\ manifest = C8_Scenario
    /\ DOMAIN cache0 = {}

\* C9: the summary is emitted only when every entry has succeeded; a failed
\* run emits none, whatever was processed before the failure.
C9_NoPartialSummary ==
    /\ pc = "failed" => summary = None
    /\ summary # None =>
         /\ Len(summary[1]) = Len(manifest)
         /\ \A k \in 1..Len(cmds) : cmds[k].rc = 0
         /\ error = ""

\* The run has failed after its first entry was fully processed.
C9_Witness ==
    /\ pc = "failed"
    /\ Len(installed) = 1
    /\ error = "command failed"
    /\ summary = None

\* C10: strategy pip with editable set issues pip install -e with the
\* project root as target, followed by [e1,...,en] when extras is not empty
\* and by nothing when it is.
C10_IsEditableTarget(target, root, extras) ==
    LET n == Len(extras)
        s == SubSeq(target, Len(root) + 1, Len(target))
    IN /\ StartsWith(target, root)
       /\ IF n = 0 THEN s = <<>>
          ELSE /\ Len(s) = 2 * n + 1
               /\ s[1] = "["
               /\ s[2 * n + 1] = "]"
               /\ \A j \in 1..n : s[2 * j] = extras[j]
               /\ \A j \in 1..(n - 1) : s[2 * j + 1] = ","

C10_PipEditableTarget ==
    \A j \in 1..Len(specs) :
        (specs[j].install = "pip" /\ specs[j].editable) =>
          LET root == PathStr(Resolve(Append(REPO_ROOT, specs[j].name), specs[j].path))
              es == {k \in 1..Len(cmds) :
                       /\ cmds[k].entry = j
                       /\ \E a \in 1..Len(cmds[k].argv) : cmds[k].argv[a] = S("-e")}
          IN /\ \A k \in es :
                  LET argv == cmds[k].argv
                  IN /\ SubSeq(argv, 1, 5) =
                          <<S("python"), S("-m"), S("pip"), S("install"), S("-e")>>
                     /\ Len(argv) = 6
                     /\ C10_IsEditableTarget(argv[6], root, specs[j].extras)
                     /\ specs[j].extras = <<"dev">> =>
                          EndsWith(argv[6], <<"[", "dev", "]">>)
                     /\ specs[j].extras = <<>> => argv[6] = root
             /\ j <= Len(installed) => Cardinality(es) = 1

\* An editable pip install with extras [dev] has been issued.
C10_Witness ==
    \E k \in 1..Len(cmds) :
        /\ cmds[k].by = "install_repo"
        /\ specs[cmds[k].entry].install = "pip"
        /\ specs[cmds[k].entry].extras = <<"dev">>
        /\ Len(cmds[k].argv) = 6
        /\ cmds[k].argv[5] = S("-e")
        /\ cmds[k].rc = 0

\* C11: an entry that sets only name and url is normalised to the stated
\* defaults with name and url as given, and the extras list and env dict of
\* two such specs are different objects.
C11_Defaults ==
    \A k \in 1..Len(specs) :
        DOMAIN manifest[k] = {"name", "url"} =>
          /\ specs[k] =
               [name |-> manifest[k].name, url |-> manifest[k].url, ref |-> "main",
                editable |-> TRUE, submodules |-> FALSE, extras |-> <<>>,
                install |-> "pip", path |-> <<".">>, env |-> [v \in {} |-> ""],
                post_install |-> <<>>]
          /\ \A l \in 1..Len(specs) :
               (l # k /\ DOMAIN manifest[l] = {"name", "url"}) =>
                 /\ objs[k].extras # objs[l].extras
                 /\ objs[k].env # objs[l].env

\* Two entries that set only name and url have been normalised.
C11_Witness ==
    /\ Len(specs) = 2
    /\ \A k \in 1..2 : DOMAIN manifest[k] = {"name", "url"}

\* The commands of entry j issued by handler h, in the order of issue.
CmdsOf(j, h) == SelectSeq(cmds, LAMBDA c : c.entry = j /\ c.by = h)

\* C12: a synchronization issues its one checkout of spec.ref right after
\* the clone or fetch has succeeded, a recursive submodule update exactly
\* when spec.submodules is set and the checkout has succeeded, and the entry
\* is installed only after all of them have succeeded.
C12_SyncSteps ==
    \A j \in 1..Len(specs) :
        LET G == CmdsOf(j, "git_clone_or_fetch")
            checkouts == {k \in 1..Len(G) : IsCheckout(G[k].argv)}
            updates == {k \in 1..Len(G) : IsSubmodule(G[k].argv)}
            installing == \/ j <= Len(installed)
                          \/ idx = j /\ pc = "install"
                          \/ Len(CmdsOf(j, "install_repo")) > 0
        IN /\ Len(G) >= 1 => (IsClone(G[1].argv) \/ IsFetch(G[1].argv))
           /\ Cardinality(checkouts) = IF Len(G) >= 1 /\ G[1].rc = 0 THEN 1 ELSE 0
           /\ \A k \in checkouts :
                k = 2 /\ G[k].argv = <<S("git"), S("checkout"), S(specs[j].ref)>>
           /\ Cardinality(updates) =
                IF specs[j].submodules /\ Len(G) >= 2 /\ G[2].rc = 0 THEN 1 ELSE 0
           /\ \A k \in updates :
                /\ k = 3
                /\ G[k].argv = <<S("git"), S("submodule"), S("update"), S("--init"),
                                 S("--recursive")>>
           /\ installing =>
                /\ Len(G) = IF specs[j].submodules THEN 3 ELSE 2
                /\ \A k \in 1..Len(G) : G[k].rc = 0
           /\ \A k, l \in 1..Len(cmds) :
                (/\ cmds[k].entry = j /\ cmds[k].by = "git_clone_or_fetch"
                 /\ cmds[l].entry = j /\ cmds[l].by = "install_repo") => k < l

\* An entry with submodules has been synchronized and its install has
\* issued a command.
C12_Witness ==
    \E j \in 1..Len(specs) :
        /\ specs[j].submodules
        /\ Len(CmdsOf(j, "git_clone_or_fetch")) = 3
        /\ Len(CmdsOf(j, "install_repo")) > 0

\* A command that installs the project itself: a python -m ... install that
\* is neither the installation of a tool nor the upgrade of pip (both -q).
IsProjectInstall(cmd) ==
    /\ cmd[1] = S("python")
    /\ \E k \in 1..Len(cmd) : cmd[k] = S("install")
    /\ \A k \in 1..Len(cmd) : cmd[k] # S("-q")

\* C13: strategy uv installs the project through uv for both values of
\* editable, with -e when editable is set, and never through plain pip.
C13_UvThroughUv ==
    \A k \in 1..Len(cmds) :
        (/\ cmds[k].by = "install_repo"
         /\ specs[cmds[k].entry].install = "uv"
         /\ IsProjectInstall(cmds[k].argv))
        => /\ SubSeq(cmds[k].argv, 1, 5) =
                <<S("python"), S("-m"), S("uv"), S("pip"), S("install")>>
           /\ specs[cmds[k].entry].editable <=>
                (\E a \in 1..Len(cmds[k].argv) : cmds[k].argv[a] = S("-e"))

\* The resolved project root of spec j, as a string.
RootOf(j) == PathStr(Resolve(Append(REPO_ROOT, specs[j].name), specs[j].path))

\* C14: after a successful dispatch of strategy poetry the project root is
\* in the search path whatever editable is, and poetry install gets
\* --with e1,...,en exactly when extras is not empty.
C14_PoetryImportable ==
    /\ \A j \in 1..Len(installed) :
         specs[j].install = "poetry" => Occurrences(syspath, RootOf(j)) >= 1
    /\ \A k \in 1..Len(cmds) :
         (/\ cmds[k].by = "install_repo"
          /\ specs[cmds[k].entry].install = "poetry"
          /\ cmds[k].argv[3] = S("poetry"))
         => LET argv == cmds[k].argv
                extras == specs[cmds[k].entry].extras
                n == Len(extras)
            IN /\ SubSeq(argv, 1, 4) =
                    <<S("python"), S("-m"), S("poetry"), S("install")>>
               /\ cmds[k].cwd = <<RootOf(cmds[k].entry)>>
               /\ IF n = 0 THEN Len(argv) = 4
                  ELSE /\ Len(argv) = 6
                       /\ argv[5] = S("--with")
                       /\ Len(argv[6]) = 2 * n - 1
                       /\ \A i \in 1..n : argv[6][2 * i - 1] = extras[i]
                       /\ \A i \in 1..(n - 1) : argv[6][2 * i] = ","

\* A poetry entry with editable false has been dispatched successfully.
C14_Witness ==
    \E j \in 1..Len(installed) :
        /\ specs[j].install = "poetry"
        /\ ~specs[j].editable
        /\ \E k \in 1..Len(cmds) : cmds[k].entry = j /\ cmds[k].argv[3] = S("poetry")

\* The place of path p in the search path, and the first dispatched entry
\* whose project root is p (the one that inserted it).
PosInPath(p) == CHOOSE k \in 1..Len(syspath) : syspath[k] = p

FirstWith(p) ==
    CHOOSE j \in 1..Len(installed) :
        /\ installed[j].path = p
        /\ \A i \in 1..(j - 1) : installed[i].path # p

\* C15 as stated: of two different project roots inserted in one run, the
\* one inserted first precedes the one inserted later in the search path.
C15_FirstInsertedWins ==
    \A i, j \in 1..Len(installed) :
        (/\ installed[i].path # installed[j].path
         /\ FirstWith(installed[i].path) < FirstWith(installed[j].path))
        => PosInPath(installed[i].path) < PosInPath(installed[j].path)

\* C15 as amended: the root inserted later precedes the root inserted
\* first, so the later insertion has priority.
C15_LastInsertedWins ==
    \A i, j \in 1..Len(installed) :
        (/\ installed[i].path # installed[j].path
         /\ FirstWith(installed[i].path) < FirstWith(installed[j].path))
        => PosInPath(installed[j].path) < PosInPath(installed[i].path)

\* Two entries with different project roots have been dispatched.
C15_Witness ==
    /\ Len(installed) = 2
    /\ installed[1].path # installed[2].path
    /\ syspath[1] = installed[2].path

\* The cache directory of spec j, as the key of disk.
DestOf(j) == PathStr(Append(REPO_ROOT, specs[j].name))

\* C16 as stated: after a run, the directory of a repeated name holds the
\* url and the ref of the later entry.
C16_LaterEntryOverwrites ==
    pc = "done" =>
      \A j, l \in 1..Len(specs) :
          (/\ j < l
           /\ specs[j].name = specs[l].name
           /\ \A i \in (l + 1)..Len(specs) : specs[i].name # specs[l].name)
          => /\ disk[DestOf(l)].url = specs[l].url
             /\ disk[DestOf(l)].head = specs[l].ref

\* C16 as amended: a repeated name is no error; the later entry fetches the
\* directory of the earlier one instead of cloning, so after a run the
\* directory holds the repository cloned first, at the later entry's ref.
C16_DirectoryReused ==
    /\ error = "TypeError" => \E k \in 1..Len(manifest) : ~RepoSpecOk(manifest[k])
    /\ \A j, l \in 1..Len(specs) :
         (j < l /\ specs[j].name = specs[l].name) =>
           \A k \in 1..Len(cmds) : cmds[k].entry = l => ~IsClone(cmds[k].argv)
    /\ pc = "done" =>
         \A l \in 1..Len(specs) :
             (\A i \in (l + 1)..Len(specs) : specs[i].name # specs[l].name) =>
               LET first == CHOOSE j \in 1..l :
                              /\ specs[j].name = specs[l].name
                              /\ \A i \in 1..(j - 1) : specs[i].name # specs[l].name
               IN /\ disk[DestOf(l)].url =
                       IF DestOf(l) \in DOMAIN cache0 THEN cache0[DestOf(l)].url
                       ELSE specs[first].url
                  /\ disk[DestOf(l)].head = specs[l].ref

\* A run has ended in which two entries share a name and differ in url, and
\* the directory holds the url of the first.
C16_Witness ==
    /\ pc = "done"
    /\ Len(specs) = 2
    /\ specs[1].name = specs[2].name
    /\ specs[1].url # specs[2].url
    /\ specs[1].ref # specs[2].ref
    /\ DOMAIN cache0 = {}
    /\ disk[DestOf(2)].url = specs[1].url

\* C17: a set post_install is run once per dispatch, as bash -lc in the
\* project root, as the last command of the entry, after the strategy's
\* commands have succeeded and the root is in the search path; when it
\* fails the run fails without a result for the entry; an unset
\* post_install issues no hook.
C17_PostInstallHook ==
    \A j \in 1..Len(specs) :
        LET I == CmdsOf(j, "install_repo")
            hooks == {k \in 1..Len(I) : I[k].argv[1] = S("bash")}
            unset == specs[j].post_install \in {<<>>, <<"">>}
        IN /\ unset => hooks = {}
           /\ Cardinality(hooks) <= 1
           /\ (j <= Len(installed) /\ ~unset) => Cardinality(hooks) = 1
           /\ \A k \in hooks :
                /\ k = Len(I)
                /\ I[k].argv = <<S("bash"), S("-lc"), S(specs[j].post_install[1])>>
                /\ I[k].cwd = <<RootOf(j)>>
                /\ \A i \in 1..(k - 1) : I[i].rc = 0
                /\ specs[j].install # "none"
                   => \E i \in 1..(k - 1) : IsProjectInstall(I[i].argv)
                /\ Occurrences(syspath, RootOf(j)) = 1
                /\ I[k].rc # 0 =>
                     /\ pc = "failed"
                     /\ Len(installed) = j - 1
                     /\ \A c \in 1..Len(cmds) : cmds[c].entry <= j

\* The hook of the first of two entries has failed after its install
\* strategy issued a command.
C17_Witness ==
    /\ Len(specs) = 2
    /\ specs[1].install = "uv"
    /\ LET I == CmdsOf(1, "install_repo")
       IN /\ Len(I) > 1
          /\ I[Len(I)].argv[1] = S("bash")
          /\ I[Len(I)].rc # 0

\* The environment after the env of specs 1..n has been merged in order:
\* each variable has the value of the last of them that sets it.
MergedEnv(n) ==
    [v \in UNION {DOMAIN specs[i].env : i \in 1..n} |->
        LET last == CHOOSE i \in 1..n :
                      /\ v \in DOMAIN specs[i].env
                      /\ \A h \in (i + 1)..n : v \notin DOMAIN specs[h].env
        IN specs[last].env[v]]

\* C18: every dispatch merges spec.env into the process environment before
\* its first command, also when the dispatch then fails, nothing is ever
\* taken out again, and every command runs with the env of all entries
\* dispatched so far, a later entry's value replacing an earlier one.
C18_EnvGlobal ==
    /\ \A k \in 1..Len(cmds) :
         cmds[k].env =
           IF cmds[k].by = "install_repo" THEN MergedEnv(cmds[k].entry)
           ELSE IF cmds[k].by = "git_clone_or_fetch" THEN MergedEnv(cmds[k].entry - 1)
           ELSE MergedEnv(0)
    /\ pc \in {"boot", "load"} => environ = MergedEnv(0)
    /\ pc \in {"sync", "install"} => environ = MergedEnv(idx - 1)
    /\ pc \in {"report", "done"} => environ = MergedEnv(Len(specs))
    /\ (pc = "failed" /\ error = "unknown install mode") => environ = MergedEnv(idx)
    /\ (pc = "failed" /\ error = "command failed")
       => environ = cmds[Len(cmds)].env

\* The synchronization of entry 2 has run with a variable set by entry 1,
\* and the dispatch of entry 2 has replaced its value.
C18_Witness ==
    /\ Len(specs) = 2
    /\ \E k \in 1..Len(cmds) :
         /\ cmds[k].entry = 2
         /\ cmds[k].by = "git_clone_or_fetch"
         /\ cmds[k].env = [K |-> "v1"]
    /\ \E k \in 1..Len(cmds) :
         /\ cmds[k].entry = 2
         /\ cmds[k].by = "install_repo"
         /\ cmds[k].env = [K |-> "v2"]

\* C19: the search path only grows, by one new entry at its front at a
\* time, which is the project root of the entry being dispatched; no path
\* occurs in it twice, also when two entries have the same root; and the
\* root of every dispatched entry is in it.
C19_SearchPath ==
    /\ [](\A a, b \in 1..Len(syspath) : a # b => syspath[a] # syspath[b])
    /\ [](\A j \in 1..Len(installed) : Occurrences(syspath, RootOf(j)) = 1)
    /\ [][\/ syspath' = syspath
          \/ /\ Len(syspath') = Len(syspath) + 1
             /\ Tail(syspath') = syspath
             /\ Occurrences(syspath, syspath'[1]) = 0
             /\ pc = "install"
             /\ syspath'[1] = RootOf(idx)]_vars

\* Two entries of different names and strategies with the same project
\* root have been dispatched.
C19_Witness ==
    /\ Len(installed) = 2
    /\ specs[1].name # specs[2].name
    /\ specs[1].install # specs[2].install
    /\ RootOf(1) = RootOf(2)
    /\ Occurrences(syspath, RootOf(1)) = 1

\* C20: the token occurs in an argument of a command only as the
\* authorization header of a clone of a url on the gated host; without a
\* token no command has an authorization header.
C20_TokenConfined ==
    \A k \in 1..Len(cmds) :
        \A a \in 1..Len(cmds[k].argv) :
            LET argv == cmds[k].argv
                isHeader == StartsWith(argv[a], <<"http.extraheader=AUTHORIZATION: bearer ">>)
            IN /\ isHeader => gh_token # ""
               /\ (\E i \in 1..Len(argv[a]) : argv[a][i] = "tok")
                  => /\ gh_token = "tok"
                     /\ cmds[k].by = "git_clone_or_fetch"
                     /\ Len(argv) = 6
                     /\ a = 3
                     /\ SubSeq(argv, 1, 2) = <<S("git"), S("-c")>>
                     /\ argv[3] = <<"http.extraheader=AUTHORIZATION: bearer ", "tok">>
                     /\ argv[4] = S("clone")
                     /\ argv[5] = specs[cmds[k].entry].url
                     /\ StartsWith(argv[5], <<"https://", "github.com", "/">>)

\* With a token supplied, a url on another host was cloned, a url on the
\* gated host was cloned, and an entry was installed.
C20_Witness ==
    /\ gh_token = "tok"
    /\ Len(installed) >= 1
    /\ \E k \in 1..Len(cmds) : IsClone(cmds[k].argv) /\ Len(cmds[k].argv) = 4
    /\ \E k \in 1..Len(cmds) : IsClone(cmds[k].argv) /\ Len(cmds[k].argv) = 6

====
